---- MODULE Spec2Model ----
(***************************************************************************)
(* Model of package gittoolbox (src/gittoolbox.go): GetVersionMetadata     *)
(* and AssertBranchIsCleanAndSynced, together with the parts of the Go      *)
(* standard library (strings, path/filepath), of the filesystem and of the  *)
(* git command line that decide what the two functions return.              *)
(*                                                                          *)
(* A Go string is modelled as the sequence of its bytes (integers), so      *)
(* that trimming, splitting, cleaning, joining and rune conversion are      *)
(* computed and not assumed.                                                *)
(***************************************************************************)
EXTENDS Integers, Sequences, FiniteSets, TLC

(***************************************************************************)
(* Bytes and string literals                                                *)
(***************************************************************************)

\* Bytes the model names by their value:
\*   9 '\t'   10 '\n'   32 ' '   42 '*'   45 '-'   46 '.'   47 '/'   48 '0'
\*   63 '?'   91 '['    92 '\'   93 ']'   94 '^'   97 'a'

(***************************************************************************)
(* package strings                                                          *)
(***************************************************************************)

\* unicode.IsSpace on the ASCII range: '\t', '\n', '\v', '\f', '\r', ' '.
IsSpace(b) == b \in {9, 10, 11, 12, 13, 32}

\* The first index at or after i, and the last at or before i, of a byte of s
\* that is no space; Len(s) + 1 and 0 when there is none.
RECURSIVE SkipSpace(_, _)
SkipSpace(s, i) == IF i > Len(s) \/ ~IsSpace(s[i]) THEN i ELSE SkipSpace(s, i + 1)

RECURSIVE SkipSpaceBack(_, _)
SkipSpaceBack(s, i) == IF i < 1 \/ ~IsSpace(s[i]) THEN i ELSE SkipSpaceBack(s, i - 1)

\* strings.TrimSpace
TrimSpace(s) == SubSeq(s, SkipSpace(s, 1), SkipSpaceBack(s, Len(s)))

\* strings.ContainsAny
ContainsAny(s, chars) == \E i \in 1..Len(s) : \E j \in 1..Len(chars) : s[i] = chars[j]

\* strings.HasPrefix, strings.HasSuffix, strings.Contains (one-byte needle)
HasPrefix(s, p) == Len(s) >= Len(p) /\ SubSeq(s, 1, Len(p)) = p
HasSuffix(s, p) == Len(s) >= Len(p) /\ SubSeq(s, Len(s) - Len(p) + 1, Len(s)) = p
ContainsByte(s, b) == \E i \in 1..Len(s) : s[i] = b

\* strings.IndexByte from index i on: the index of the first b, 0 when none.
RECURSIVE IndexByteFrom(_, _, _)
IndexByteFrom(s, b, i) ==
  IF i > Len(s) THEN 0 ELSE IF s[i] = b THEN i ELSE IndexByteFrom(s, b, i + 1)

\* strings.Split(s, sep) for a one-byte separator: always Count(sep)+1 pieces,
\* so Split("", sep) is the one-element list holding the empty string.
RECURSIVE SplitFrom(_, _, _)
SplitAt(s, b, from, cut) ==
  IF cut = 0 THEN <<SubSeq(s, from, Len(s))>>
  ELSE <<SubSeq(s, from, cut - 1)>> \o SplitFrom(s, b, cut + 1)

SplitFrom(s, b, from) == SplitAt(s, b, from, IndexByteFrom(s, b, from))

SplitByte(s, b) == SplitFrom(s, b, 1)

\* The first index at or after i of a space of s; Len(s) + 1 when none.
RECURSIVE SkipField(_, _)
SkipField(s, i) == IF i > Len(s) \/ IsSpace(s[i]) THEN i ELSE SkipField(s, i + 1)

\* strings.Fields: the maximal runs of non-space bytes, in order.
RECURSIVE FieldsFrom(_, _)
FieldAt(s, start, end) ==
  IF start > Len(s) THEN <<>> ELSE <<SubSeq(s, start, end - 1)>> \o FieldsFrom(s, end)

FieldsFrom(s, i) == FieldAt(s, SkipSpace(s, i), SkipField(s, SkipSpace(s, i)))

Fields(s) == FieldsFrom(s, 1)

\* strings.Join(lines, sep)
RECURSIVE JoinWith(_, _)
JoinWith(parts, sep) ==
  IF parts = <<>> THEN <<>>
  ELSE IF Len(parts) = 1 THEN parts[1]
  ELSE parts[1] \o sep \o JoinWith(Tail(parts), sep)

\* Lexicographic order on byte strings (Go's < on strings, sort.Strings).
RECURSIVE StrLess(_, _)
StrLess(s, t) ==
  IF t = <<>> THEN FALSE
  ELSE IF s = <<>> THEN TRUE
  ELSE IF s[1] # t[1] THEN s[1] < t[1]
  ELSE StrLess(Tail(s), Tail(t))

\* The strings of a finite set in ascending order.
RECURSIVE SortStrings(_)
SortedAfter(m, A) == <<m>> \o SortStrings(A \ {m})

SortStrings(A) ==
  IF A = {} THEN <<>>
  ELSE SortedAfter(CHOOSE x \in A : \A y \in A \ {x} : StrLess(x, y), A)

(***************************************************************************)
(* package path/filepath (Unix: separator '/')                              *)
(***************************************************************************)

IsRooted(p) == Len(p) > 0 /\ p[1] = 47

\* The elements of p between separators, empty ones dropped.
Elements(p) == SelectSeq(SplitByte(p, 47), LAMBDA e : e # <<>>)

\* One element of Clean's scan: "." is dropped; ".." removes the element before
\* it, is dropped at the root and is kept at the front of a relative path.
CleanStep(stack, e, rooted) ==
  IF e = <<46>> THEN stack
  ELSE IF e = <<46, 46>>
    THEN IF Len(stack) > 0 /\ stack[Len(stack)] # <<46, 46>>
           THEN SubSeq(stack, 1, Len(stack) - 1)
         ELSE IF rooted THEN stack
         ELSE Append(stack, e)
  ELSE Append(stack, e)

RECURSIVE CleanScan(_, _, _)
CleanScan(es, stack, rooted) ==
  IF es = <<>> THEN stack ELSE CleanScan(Tail(es), CleanStep(stack, es[1], rooted), rooted)

\* The cleaned elements put together again: "/" in front of a rooted path,
\* "." for an empty relative one.
CleanJoin(rooted, body) ==
  IF rooted THEN <<47>> \o body
  ELSE IF body = <<>> THEN <<46>>
  ELSE body

\* filepath.Clean
Clean(p) ==
  CleanJoin(IsRooted(p), JoinWith(CleanScan(Elements(p), <<>>, IsRooted(p)), <<47>>))

\* filepath.Join(dir, name): empty elements are ignored, the rest is cleaned.
Join(dir, name) ==
  IF dir = <<>> /\ name = <<>> THEN <<>>
  ELSE IF dir = <<>> THEN Clean(name)
  ELSE IF name = <<>> THEN Clean(dir)
  ELSE Clean(dir \o <<47>> \o name)

\* Index of the last separator of p at or before i, 0 when there is none.
RECURSIVE LastSepFrom(_, _)
LastSepFrom(p, i) == IF i < 1 \/ p[i] = 47 THEN i ELSE LastSepFrom(p, i - 1)

LastSep(p) == LastSepFrom(p, Len(p))

\* filepath.Split: the directory part keeps its trailing separator.
SplitPath(p) == [dir |-> SubSeq(p, 1, LastSep(p)), file |-> SubSeq(p, LastSep(p) + 1, Len(p))]

\* filepath.Dir
Dir(p) == Clean(SplitPath(p).dir)

\* filepath.Base of a clean path
Base(p) == SplitPath(p).file

\* getEsc of filepath.Match: one (possibly escaped) class character at p[i],
\* which must not be '-' or ']' and must not end the pattern.
GetEscAt(p, i, j) ==
  IF i > Len(p) \/ p[i] \in {45, 93} \/ j > Len(p) \/ j + 1 > Len(p)
    THEN [ok |-> FALSE, r |-> 0, next |-> 0]
  ELSE [ok |-> TRUE, r |-> p[j], next |-> j + 1]

GetEsc(p, i) == GetEscAt(p, i, IF i <= Len(p) /\ p[i] = 92 THEN i + 1 ELSE i)

\* The ranges of a character class, scanned from p[i] to its closing ']'.
RECURSIVE ClassRanges(_, _, _, _)
\* A range lo-hi, hi read after the '-'.
ClassRangeTo(p, lo, hi, nrange, ranges) ==
  IF ~hi.ok THEN [ok |-> FALSE, end |-> 0, ranges |-> {}]
  ELSE ClassRanges(p, hi.next, nrange + 1, ranges \cup {<<lo.r, hi.r>>})

\* A single character lo, or the start of a range.
ClassRangeFrom(p, lo, nrange, ranges) ==
  IF ~lo.ok THEN [ok |-> FALSE, end |-> 0, ranges |-> {}]
  ELSE IF p[lo.next] = 45 THEN ClassRangeTo(p, lo, GetEsc(p, lo.next + 1), nrange, ranges)
  ELSE ClassRanges(p, lo.next, nrange + 1, ranges \cup {<<lo.r, lo.r>>})

ClassRanges(p, i, nrange, ranges) ==
  IF i <= Len(p) /\ p[i] = 93 /\ nrange > 0
    THEN [ok |-> TRUE, end |-> i, ranges |-> ranges]
  ELSE ClassRangeFrom(p, GetEsc(p, i), nrange, ranges)

ClassOf(negated, c) == [ok |-> c.ok, end |-> c.end, negated |-> negated, ranges |-> c.ranges]

\* The class opening at p[i] = '[': whether it is well formed, where it ends,
\* whether it is negated and what it holds.
Class(p, i) ==
  IF i + 1 <= Len(p) /\ p[i + 1] = 94
    THEN ClassOf(TRUE, ClassRanges(p, i + 2, 0, {}))
  ELSE ClassOf(FALSE, ClassRanges(p, i + 1, 0, {}))

InClass(c, b) == (\E r \in c.ranges : r[1] <= b /\ b <= r[2]) # c.negated

\* filepath.ErrBadPattern: an unterminated or empty class, a trailing backslash.
RECURSIVE BadPatternFrom(_, _)
BadClassOrAfter(p, c) == ~c.ok \/ BadPatternFrom(p, c.end + 1)

BadPatternFrom(p, i) ==
  IF i > Len(p) THEN FALSE
  ELSE IF p[i] = 92 THEN i + 1 > Len(p) \/ BadPatternFrom(p, i + 2)
  ELSE IF p[i] = 91 THEN BadClassOrAfter(p, Class(p, i))
  ELSE BadPatternFrom(p, i + 1)

BadPattern(p) == BadPatternFrom(p, 1)

\* filepath.Match of a well-formed pattern from p[i] against name from n[j]:
\* '*' is any run of non-separators, '?' one non-separator, '[...]' a class,
\* '\\c' the character c, anything else itself.
RECURSIVE MatchFrom(_, _, _, _)
MatchClass(p, c, n, j) == InClass(c, n[j]) /\ MatchFrom(p, c.end + 1, n, j + 1)

MatchFrom(p, i, n, j) ==
  IF i > Len(p) THEN j > Len(n)
  ELSE IF p[i] = 42
    THEN \E k \in j..(Len(n) + 1) :
           /\ \A m \in j..(k - 1) : n[m] # 47
           /\ MatchFrom(p, i + 1, n, k)
  ELSE IF j > Len(n) THEN FALSE
  ELSE IF p[i] = 63 THEN n[j] # 47 /\ MatchFrom(p, i + 1, n, j + 1)
  ELSE IF p[i] = 91 THEN MatchClass(p, Class(p, i), n, j)
  ELSE IF p[i] = 92 THEN n[j] = p[i + 1] /\ MatchFrom(p, i + 2, n, j + 1)
  ELSE n[j] = p[i] /\ MatchFrom(p, i + 1, n, j + 1)

Match(p, n) == MatchFrom(p, 1, n, 1)

\* hasMeta of filepath.Glob
HasMeta(p) == ContainsAny(p, <<42, 63, 91, 92>>)

\* cleanGlobPath of filepath.Glob
CleanGlobPath(dir) ==
  IF dir = <<>> THEN <<46>>
  ELSE IF dir = <<47>> THEN dir
  ELSE SubSeq(dir, 1, Len(dir) - 1)

(***************************************************************************)
(* State                                                                    *)
(***************************************************************************)

VARIABLES
  files,               \* the regular files of the filesystem (absolute paths)
  dirs,                \* the directories of the filesystem (absolute paths)
  log,                 \* the commits of the repository, newest first
  repo,                \* the checked-out branch, its distance to origin, the work tree
  pc,                  \* where the running call is: "idle" between calls
  targets,             \* GetVersionMetadata: the targets parameter
  resolved,            \* GetVersionMetadata: the resolved slice
  workDir,             \* GetVersionMetadata: workDir
  commitHash,          \* GetVersionMetadata: commitHash
  commitDateNoSuffix,  \* GetVersionMetadata: commitDateNoSuffix
  countStr,            \* GetVersionMetadata: countStr
  ret,                 \* GetVersionMetadata: the returned (commitDate, commitHash, err)
  branch,              \* AssertBranchIsCleanAndSynced: branch
  parts,               \* AssertBranchIsCleanAndSynced: parts
  syncErr,             \* AssertBranchIsCleanAndSynced: the returned error
  calls                \* the git invocations of the running call, in order

vars == <<files, dirs, log, repo, pc, targets, resolved, workDir, commitHash, commitDateNoSuffix,
          countStr, ret, branch, parts, syncErr, calls>>

envVars == <<files, dirs, log, repo>>
versionVars == <<targets, resolved, workDir, commitHash, commitDateNoSuffix, countStr, ret>>
syncVars == <<branch, parts, syncErr>>

\* A Go error value: nil, or what the message is built from.
Nil == [kind |-> "nil", arg |-> <<>>]
Err(kind, arg) == [kind |-> kind, arg |-> arg]

(***************************************************************************)
(* The filesystem: one repository at RepoRoot, the caller running in Cwd    *)
(***************************************************************************)

\* The repository directory (td := t.TempDir(); git init in it).
RepoRoot == <<47, 114>>  \* "/r"

\* The directory the calling process runs in, which relative targets and the
\* default target "." name.
Cwd == RepoRoot

\* The files the environment may write (fname of writeAndCommit), under RepoRoot.
FileBracket == <<47, 114, 47, 91, 97, 93>>  \* "/r/[a]"
FileDA == <<47, 114, 47, 100, 47, 97>>  \* "/r/d/a"
FileDDA == <<47, 114, 47, 100, 47, 100, 47, 97>>  \* "/r/d/d/a"
FilePaths == {FileBracket, FileDA, FileDDA}

\* p as the kernel resolves it for a process running in base.
AbsFrom(base, p) == IF IsRooted(p) THEN Clean(p) ELSE Clean(base \o <<47>> \o p)
Abs(p) == AbsFrom(Cwd, p)

RECURSIVE Ancestors(_)
Ancestors(a) == IF a = <<47>> THEN {} ELSE {Dir(a)} \cup Ancestors(Dir(a))

\* os.Stat(p) in the calling process: found or not, directory or not.
StatAbs(a) == [ok |-> a \in files \/ a \in dirs, isDir |-> a \in dirs]
Stat(p) == StatAbs(Abs(p))

\* The entries, sorted by name, of the directory with absolute path a.
EntriesOf(a, names) ==
  [k \in 1..Len(names) |-> [name |-> names[k], isDir |-> AbsFrom(a, names[k]) \in dirs]]

ReadDirAbs(a) ==
  EntriesOf(a, SortStrings({Base(x) : x \in {y \in (files \cup dirs) \ {<<47>>} : Dir(y) = a}}))

\* os.ReadDir(p): the entries of directory p, sorted by name.
ReadDir(p) == ReadDirAbs(Abs(p))

JoinAll(dir, es) == [k \in 1..Len(es) |-> Join(dir, es[k].name)]

\* glob of filepath.Glob: the names in dir matching pattern, joined to dir, in
\* name order, appended to matches; nothing when dir is no directory.
GlobStat(dir, st, pattern, matches) ==
  IF ~st.ok \/ ~st.isDir THEN matches
  ELSE matches \o JoinAll(dir, SelectSeq(ReadDir(dir), LAMBDA e : Match(pattern, e.name)))

GlobDir(dir, pattern, matches) == GlobStat(dir, Stat(dir), pattern, matches)

RECURSIVE GlobDirs(_, _, _)
GlobDirs(ds, pattern, matches) ==
  IF ds = <<>> THEN matches ELSE GlobDirs(Tail(ds), pattern, GlobDir(ds[1], pattern, matches))

\* filepath.Glob: ErrBadPattern (bad), or the matches in order.
RECURSIVE Glob(_)
\* The matches of file in every match m of the directory part.
GlobUnder(m, file) ==
  IF m.bad THEN m ELSE [bad |-> FALSE, matches |-> GlobDirs(m.matches, file, <<>>)]

\* A pattern with metacharacters, split into directory part and file part.
GlobSplit(pattern, dir, file) ==
  IF ~HasMeta(dir) THEN [bad |-> FALSE, matches |-> GlobDir(dir, file, <<>>)]
  ELSE IF dir = pattern THEN [bad |-> TRUE, matches |-> <<>>]
  ELSE GlobUnder(Glob(dir), file)

Glob(pattern) ==
  IF BadPattern(pattern) THEN [bad |-> TRUE, matches |-> <<>>]
  ELSE IF ~HasMeta(pattern)
    THEN [bad |-> FALSE, matches |-> IF Stat(pattern).ok THEN <<pattern>> ELSE <<>>]
  ELSE GlobSplit(pattern, CleanGlobPath(SplitPath(pattern).dir), SplitPath(pattern).file)

(***************************************************************************)
(* GetVersionMetadata: path resolution                                      *)
(***************************************************************************)

Target(path, includeSubdirs) == [Path |-> path, IncludeSubdirs |-> includeSubdirs]

\* The characters that make a target path a glob.
GlobChars == <<42, 63, 91>>  \* "*?["

\* The regular files directly in directory p, each joined to p.
FilesIn(p) == JoinAll(p, SelectSeq(ReadDir(p), LAMBDA e : ~e.isDir))

\* What one path m with os.Stat result info adds to resolved: itself when it
\* is a file or a directory taken with its subtree, its immediate files
\* otherwise; an error when os.Stat failed.
ExpandStat(m, info, includeSubdirs) ==
  IF ~info.ok THEN [err |-> Err("stat", m), paths |-> <<>>]
  ELSE IF info.isDir /\ ~includeSubdirs THEN [err |-> Nil, paths |-> FilesIn(m)]
  ELSE [err |-> Nil, paths |-> <<m>>]

ExpandPath(m, includeSubdirs) == ExpandStat(m, Stat(m), includeSubdirs)

\* The loop over the matches of a glob; the first failing match ends it.
RECURSIVE ExpandMatches(_, _, _)
ExpandNext(e, ms, includeSubdirs, acc) ==
  IF e.err # Nil THEN [err |-> e.err, paths |-> <<>>]
  ELSE ExpandMatches(Tail(ms), includeSubdirs, acc \o e.paths)

ExpandMatches(ms, includeSubdirs, acc) ==
  IF ms = <<>> THEN [err |-> Nil, paths |-> acc]
  ELSE ExpandNext(ExpandPath(ms[1], includeSubdirs), ms, includeSubdirs, acc)

\* ExpandGlobbed without the test for an empty list of matches: the glob then
\* adds nothing and the loop goes on. Used to show that C6 rests on the test.
ExpandGlobbedUnchecked(p, g, includeSubdirs) ==
  IF g.bad THEN [err |-> Err("invalid glob", p), paths |-> <<>>]
  ELSE ExpandMatches(g.matches, includeSubdirs, <<>>)

\* A glob target with filepath.Glob's answer g: an invalid pattern and a
\* pattern without matches are errors.
ExpandGlobbed(p, g, includeSubdirs) ==
  IF g.bad THEN [err |-> Err("invalid glob", p), paths |-> <<>>]
  ELSE IF g.matches = <<>> THEN [err |-> Err("glob: no matches", p), paths |-> <<>>]
  ELSE ExpandMatches(g.matches, includeSubdirs, <<>>)

ExpandGlob(p, includeSubdirs) == ExpandGlobbed(p, Glob(p), includeSubdirs)

\* One pass of the loop over targets, p the cleaned path.
ResolveClean(p, includeSubdirs) ==
  IF ContainsAny(p, GlobChars) THEN ExpandGlob(p, includeSubdirs)
  ELSE ExpandPath(p, includeSubdirs)

ResolveTarget(t) == ResolveClean(Clean(t.Path), t.IncludeSubdirs)

\* The loop over targets, appending to acc; the first error ends it.
RECURSIVE ResolveFrom(_, _)
ResolveNext(e, ts, acc) ==
  IF e.err # Nil THEN [err |-> e.err, resolved |-> <<>>]
  ELSE ResolveFrom(Tail(ts), acc \o e.paths)

ResolveFrom(ts, acc) ==
  IF ts = <<>> THEN [err |-> Nil, resolved |-> acc]
  ELSE ResolveNext(ResolveTarget(ts[1]), ts, acc)

\* No targets means the current directory, without its subdirectories.
DefaultTargets(ts) == IF ts = <<>> THEN <<Target(<<46>>, FALSE)>> ELSE ts

\* After the loop: nothing resolved is an error.
NonEmpty(r) ==
  IF r.err = Nil /\ r.resolved = <<>>
    THEN [err |-> Err("no files to inspect", <<>>), resolved |-> <<>>]
  ELSE r

\* The resolution as a whole: an error, or a non-empty resolved list.
Resolve(ts) == NonEmpty(ResolveFrom(DefaultTargets(ts), <<>>))

\* The directory git runs in: that of the first resolved path when it is a
\* file, the first resolved path itself otherwise.
WorkDirStat(first, info) == IF info.ok /\ ~info.isDir THEN Dir(first) ELSE first

WorkDirOf(rs) == WorkDirStat(rs[1], Stat(rs[1]))

(***************************************************************************)
(* The git command line, as far as the two functions use it                 *)
(***************************************************************************)

HashArgs == <<"log", "-n", "1", "--pretty=format:%h", "--">>
DateArgs == <<"log", "-n", "1", "--date=format:%Y-%m-%d", "--pretty=format:%cd", "--">>
CountArgs == <<"log", "--date=format:%Y-%m-%d", "--pretty=format:%cd", "--">>

\* The n-th digit of "0123456789abcdef".
HexDigit(n) == <<48, 49, 50, 51, 52, 53, 54, 55, 56, 57, 97, 98, 99, 100, 101, 102>>[n + 1]

\* %h of the commit numbered id: seven hexadecimal digits, different for
\* different commits: "c0ffe" and two more digits.
ShortHash(id) == <<99, 48, 102, 102, 101>> \o <<HexDigit((id \div 16) % 16), HexDigit(id % 16)>>

\* What a failing git leaves in the buffer.
Fatal == <<102, 97, 116, 97, 108, 58, 32, 10>>  \* "fatal: \n"

InRepo(a) == a = RepoRoot \/ HasPrefix(a, RepoRoot \o <<47>>)

\* A pathspec names a file, or a directory with all that is below it.
Touches(pathspec, f) == pathspec = f \/ HasPrefix(f, pathspec \o <<47>>)

\* git log -- paths run with cmd.Dir = dir: pathspecs are relative to the
\* directory git runs in. It fails when that directory is missing or outside
\* the repository, or when a pathspec leaves the repository.
GitLogOf(wd, pathspecs) ==
  IF wd \notin dirs \/ ~InRepo(wd) \/ \E s \in pathspecs : ~InRepo(s)
    THEN [ok |-> FALSE, commits |-> <<>>]
  ELSE [ok |-> TRUE,
        commits |-> SelectSeq(log, LAMBDA c : \E s \in pathspecs : Touches(s, c.file))]

GitLogIn(wd, paths) == GitLogOf(wd, {AbsFrom(wd, paths[k]) : k \in 1..Len(paths)})

GitLog(dir, paths) == GitLogIn(IF dir = <<>> THEN Cwd ELSE Abs(dir), paths)

\* What git log prints for the selected commits under each format.
GitStdout(args, commits) ==
  IF commits = <<>> THEN <<>>
  ELSE IF args = HashArgs THEN ShortHash(commits[1].id)
  ELSE IF args = DateArgs THEN commits[1].date
  ELSE JoinWith([k \in 1..Len(commits) |-> commits[k].date], <<10>>) \o <<10>>

\* gitOutputIn for the log queries: the trimmed output and whether the run
\* succeeded; up says whether git could be run at all.
GitRan(g, args, up) ==
  IF ~up \/ ~g.ok THEN [out |-> TrimSpace(Fatal), ok |-> FALSE]
  ELSE [out |-> TrimSpace(GitStdout(args, g.commits)), ok |-> TRUE]

GitOutputIn(dir, args, paths, up) == GitRan(GitLog(dir, paths), args, up)

Invocation(dir, args, paths, ok) == [dir |-> dir, args |-> args, paths |-> paths, ok |-> ok]

(***************************************************************************)
(* GetVersionMetadata: the date suffix                                      *)
(***************************************************************************)

\* string(rune(r)): the UTF-8 encoding of r, of U+FFFD when r is no valid
\* code point.
RuneToString(r) ==
  IF r < 0 \/ r > 1114111 \/ (55296 <= r /\ r <= 57343) THEN <<239, 191, 189>>
  ELSE IF r < 128 THEN <<r>>
  ELSE IF r < 2048 THEN <<192 + (r \div 64), 128 + (r % 64)>>
  ELSE IF r < 65536 THEN <<224 + (r \div 4096), 128 + ((r \div 64) % 64), 128 + (r % 64)>>
  ELSE <<240 + (r \div 262144), 128 + ((r \div 4096) % 64), 128 + ((r \div 64) % 64),
         128 + (r % 64)>>

\* CountLines without the comparison with date: every line is counted. Used
\* to show that C3 rests on the comparison.
CountAllLines(history, date) == Len(SplitByte(history, 10))

\* The number of lines of history that, trimmed, equal date.
CountEqual(lines, date) == Cardinality({k \in 1..Len(lines) : TrimSpace(lines[k]) = date})

CountLines(history, date) == CountEqual(SplitByte(history, 10), date)

\* Suffix with the letter taken one lower, 'a' for two commits. Used to show
\* that C1 rests on the letter the code computes.
SuffixCountMinusTwo(count) == IF count > 1 THEN RuneToString(97 + count - 2) ELSE <<>>

\* suffix: empty for at most one commit, else the letter numbered count.
Suffix(count) == IF count > 1 THEN RuneToString(97 + count - 1) ELSE <<>>

\* commitDate: the date alone, or the date, a dash and the suffix.
CommitDate(date, suffix) ==
  IF suffix = <<>> \/ suffix = <<97>> THEN date ELSE date \o <<45>> \o suffix

(***************************************************************************)
(* The environment: files written and committed between calls               *)
(***************************************************************************)

\* The commit dates (GIT_COMMITTER_DATE) the environment uses, as
\* --date=format:%Y-%m-%d prints them.
Date1 == <<50, 48, 50, 53, 45, 48, 57, 45, 49, 48>>  \* "2025-09-10"
Date2 == <<50, 48, 50, 53, 45, 48, 57, 45, 49, 49>>  \* "2025-09-11"
Dates == {Date1, Date2}

Commit(date, file, id) == [date |-> date, file |-> file, id |-> id]

\* writeAndCommit: write the file, git add, git commit at the given date.
WriteAndCommit(f, date) ==
  /\ pc = "idle"
  /\ files' = files \cup {f}
  /\ dirs' = dirs \cup Ancestors(f)
  /\ log' = <<Commit(date, f, Len(log) + 1)>> \o log
  /\ UNCHANGED <<repo, pc, versionVars, syncVars, calls>>

\* A file written and left untracked.
WriteFile(f) ==
  /\ pc = "idle"
  /\ f \notin files
  /\ files' = files \cup {f}
  /\ dirs' = dirs \cup Ancestors(f)
  /\ UNCHANGED <<log, repo, pc, versionVars, syncVars, calls>>

(***************************************************************************)
(* GetVersionMetadata                                                       *)
(***************************************************************************)

Returned(date, hash, err) == [commitDate |-> date, commitHash |-> hash, err |-> err]
NoReturn == Returned(<<>>, <<>>, Nil)

\* After the loop over targets: return its error, or go on with the resolved
\* paths and the working directory.
Resolved(r) ==
  IF r.err # Nil
    THEN /\ ret' = Returned(<<>>, <<>>, r.err)
         /\ pc' = "done"
         /\ UNCHANGED <<resolved, workDir>>
    ELSE /\ resolved' = r.resolved
         /\ workDir' = WorkDirOf(r.resolved)
         /\ pc' = "hash"
         /\ UNCHANGED ret

\* The call up to the first git invocation: resolution and working directory.
GetVersionMetadata(ts) ==
  /\ pc = "idle"
  /\ targets' = ts
  /\ calls' = <<>>
  /\ Resolved(Resolve(ts))
  /\ UNCHANGED <<envVars, commitHash, commitDateNoSuffix, countStr, syncVars>>

\* git log -n 1 --pretty=format:%h -- <paths...>
GotHash(g) ==
  /\ calls' = Append(calls, Invocation(workDir, HashArgs, resolved, g.ok))
  /\ IF ~g.ok
       THEN /\ ret' = Returned(<<>>, <<>>, Err("git log hash", <<>>))
            /\ pc' = "done"
            /\ UNCHANGED commitHash
       ELSE /\ commitHash' = g.out
            /\ pc' = "date"
            /\ UNCHANGED ret

QueryHash ==
  /\ pc = "hash"
  /\ \E up \in BOOLEAN : GotHash(GitOutputIn(workDir, HashArgs, resolved, up))
  /\ UNCHANGED <<envVars, targets, resolved, workDir, commitDateNoSuffix, countStr, syncVars>>

\* git log -n 1 --date=format:%Y-%m-%d --pretty=format:%cd -- <paths...>
GotDate(g) ==
  /\ calls' = Append(calls, Invocation(workDir, DateArgs, resolved, g.ok))
  /\ IF ~g.ok
       THEN /\ ret' = Returned(<<>>, <<>>, Err("git log date", <<>>))
            /\ pc' = "done"
            /\ UNCHANGED commitDateNoSuffix
       ELSE /\ commitDateNoSuffix' = g.out
            /\ pc' = "count"
            /\ UNCHANGED ret

QueryDate ==
  /\ pc = "date"
  /\ \E up \in BOOLEAN : GotDate(GitOutputIn(workDir, DateArgs, resolved, up))
  /\ UNCHANGED <<envVars, targets, resolved, workDir, commitHash, countStr, syncVars>>

\* git log --date=format:%Y-%m-%d --pretty=format:%cd -- <paths...>
GotCount(g) ==
  /\ calls' = Append(calls, Invocation(workDir, CountArgs, resolved, g.ok))
  /\ IF ~g.ok
       THEN /\ ret' = Returned(<<>>, <<>>, Err("git log count", <<>>))
            /\ pc' = "done"
            /\ UNCHANGED countStr
       ELSE /\ countStr' = g.out
            /\ pc' = "suffix"
            /\ UNCHANGED ret

QueryCount ==
  /\ pc = "count"
  /\ \E up \in BOOLEAN : GotCount(GitOutputIn(workDir, CountArgs, resolved, up))
  /\ UNCHANGED <<envVars, targets, resolved, workDir, commitHash, commitDateNoSuffix, syncVars>>

\* The count of same-date lines, the suffix and the successful return.
ReturnMetadata ==
  /\ pc = "suffix"
  /\ ret' = Returned(CommitDate(commitDateNoSuffix,
                                Suffix(CountLines(countStr, commitDateNoSuffix))),
                     commitHash, Nil)
  /\ pc' = "done"
  /\ UNCHANGED <<envVars, targets, resolved, workDir, commitHash, commitDateNoSuffix,
                 countStr, syncVars, calls>>

\* The caller takes the result; nothing of the call is kept.
Forget ==
  /\ pc \in {"done", "syncDone"}
  /\ pc' = "idle"
  /\ targets' = <<>>
  /\ resolved' = <<>>
  /\ workDir' = <<>>
  /\ commitHash' = <<>>
  /\ commitDateNoSuffix' = <<>>
  /\ countStr' = <<>>
  /\ ret' = NoReturn
  /\ branch' = <<>>
  /\ parts' = <<>>
  /\ syncErr' = Nil
  /\ calls' = <<>>
  /\ UNCHANGED envVars

(***************************************************************************)
(* AssertBranchIsCleanAndSynced                                             *)
(***************************************************************************)

Main == <<109, 97, 105, 110>>  \* "main"
Dev == <<100, 101, 118>>  \* "dev"
Branches == {Main, Dev}

RevParseArgs == <<"rev-parse", "--abbrev-ref", "HEAD">>
FetchArgs == <<"fetch", "origin", "<branch>", "--quiet">>
RevListArgs == <<"rev-list", "--left-right", "--count", "origin/<branch>...<branch>">>
StatusArgs == <<"status", "--porcelain">>

\* strconv.Itoa of a natural number.
RECURSIVE Itoa(_)
Itoa(n) == IF n < 10 THEN <<48 + n>> ELSE Itoa(n \div 10) \o <<48 + (n % 10)>>

\* What git prints on success: the branch name; the commits only in origin
\* and only in the branch; one line per changed or untracked file. A warning
\* on standard error lands in the same buffer, before the answer.
Warning == <<119, 97, 114, 110, 105, 110, 103, 58, 32, 120, 10>>  \* "warning: x\n"
RevParseStdout == repo.branch \o <<10>>
RevListStdout == Itoa(repo.behind) \o <<9>> \o Itoa(repo.ahead) \o <<10>>
StatusStdout == IF repo.dirty THEN <<32, 77, 32, 97, 10>> ELSE <<>>  \* " M a\n"

\* gitOutput for the queries of the check: on failure git's message, on
\* success the trimmed output, after the warning when there is one.
GitOutput(stdout, up, warned) ==
  IF ~up THEN [out |-> TrimSpace(Fatal), ok |-> FALSE]
  ELSE [out |-> TrimSpace((IF warned THEN Warning ELSE <<>>) \o stdout), ok |-> TRUE]

\* git rev-parse --abbrev-ref HEAD
GotBranch(g) ==
  /\ calls' = <<Invocation(<<>>, RevParseArgs, <<>>, g.ok)>>
  /\ IF ~g.ok
       THEN /\ syncErr' = Err("git", g.out)
            /\ pc' = "syncDone"
            /\ UNCHANGED branch
       ELSE /\ branch' = TrimSpace(g.out)
            /\ pc' = "fetch"
            /\ UNCHANGED syncErr

AssertBranchIsCleanAndSynced ==
  /\ pc = "idle"
  /\ \E up \in BOOLEAN : GotBranch(GitOutput(RevParseStdout, up, FALSE))
  /\ UNCHANGED <<envVars, versionVars, parts>>

\* git fetch origin <branch> --quiet
Fetched(g) ==
  /\ calls' = Append(calls, Invocation(<<>>, FetchArgs, <<branch>>, g.ok))
  /\ IF ~g.ok
       THEN /\ syncErr' = Err("git", g.out)
            /\ pc' = "syncDone"
       ELSE /\ pc' = "revList"
            /\ UNCHANGED syncErr

Fetch ==
  /\ pc = "fetch"
  /\ \E up \in BOOLEAN : Fetched(GitOutput(<<>>, up, FALSE))
  /\ UNCHANGED <<envVars, versionVars, branch, parts>>

\* Diverged with the two tests in the other order. Used to show that C4 rests
\* on the order of the tests.
DivergedAheadFirst(fields, b) ==
  IF Len(fields) # 2 THEN Err("unexpected output from git rev-list", <<>>)
  ELSE IF fields[2] # <<48>> THEN Err("your branch is ahead of origin/", b)
  ELSE IF fields[1] # <<48>> THEN Err("your branch is behind origin/", b)
  ELSE Nil

\* The verdict on the two counts of git rev-list --left-right --count.
Diverged(fields, b) ==
  IF Len(fields) # 2 THEN Err("unexpected output from git rev-list", <<>>)
  ELSE IF fields[1] # <<48>> THEN Err("your branch is behind origin/", b)
  ELSE IF fields[2] # <<48>> THEN Err("your branch is ahead of origin/", b)
  ELSE Nil

\* git rev-list --left-right --count origin/<branch>...<branch>
GotCounts(g) ==
  /\ calls' = Append(calls, Invocation(<<>>, RevListArgs, <<branch>>, g.ok))
  /\ IF ~g.ok
       THEN /\ syncErr' = Err("git", g.out)
            /\ pc' = "syncDone"
            /\ UNCHANGED parts
       ELSE /\ parts' = Fields(g.out)
            /\ syncErr' = Diverged(Fields(g.out), branch)
            /\ pc' = IF Diverged(Fields(g.out), branch) # Nil THEN "syncDone" ELSE "status"

RevList ==
  /\ pc = "revList"
  /\ \E up \in BOOLEAN, warned \in BOOLEAN : GotCounts(GitOutput(RevListStdout, up, warned))
  /\ UNCHANGED <<envVars, versionVars, branch>>

\* git status --porcelain
GotStatus(g) ==
  /\ calls' = Append(calls, Invocation(<<>>, StatusArgs, <<>>, g.ok))
  /\ syncErr' = IF ~g.ok THEN Err("git", g.out)
                ELSE IF TrimSpace(g.out) # <<>> THEN Err("you have uncommitted changes", <<>>)
                ELSE Nil
  /\ pc' = "syncDone"

Status ==
  /\ pc = "status"
  /\ \E up \in BOOLEAN : GotStatus(GitOutput(StatusStdout, up, FALSE))
  /\ UNCHANGED <<envVars, versionVars, branch, parts>>

\* The repository between calls: another branch checked out, a commit pushed
\* to origin by someone else, a local commit, an edit, a cleanup.
MaxDiverge == 2

Checkout(b) ==
  /\ pc = "idle"
  /\ b # repo.branch
  /\ repo' = [repo EXCEPT !.branch = b]
  /\ UNCHANGED <<files, dirs, log, pc, versionVars, syncVars, calls>>

RemoteCommit ==
  /\ pc = "idle"
  /\ repo.behind < MaxDiverge
  /\ repo' = [repo EXCEPT !.behind = @ + 1]
  /\ UNCHANGED <<files, dirs, log, pc, versionVars, syncVars, calls>>

LocalCommit ==
  /\ pc = "idle"
  /\ repo.ahead < MaxDiverge
  /\ repo' = [repo EXCEPT !.ahead = @ + 1]
  /\ UNCHANGED <<files, dirs, log, pc, versionVars, syncVars, calls>>

Edit ==
  /\ pc = "idle"
  /\ repo' = [repo EXCEPT !.dirty = ~@]
  /\ UNCHANGED <<files, dirs, log, pc, versionVars, syncVars, calls>>

(***************************************************************************)
(* Specifications                                                           *)
(***************************************************************************)

Init ==
  /\ files = {}
  /\ dirs = {RepoRoot} \cup Ancestors(RepoRoot)
  /\ log = <<>>
  /\ repo = [branch |-> Main, behind |-> 0, ahead |-> 0, dirty |-> FALSE]
  /\ pc = "idle"
  /\ targets = <<>>
  /\ resolved = <<>>
  /\ workDir = <<>>
  /\ commitHash = <<>>
  /\ commitDateNoSuffix = <<>>
  /\ countStr = <<>>
  /\ ret = NoReturn
  /\ branch = <<>>
  /\ parts = <<>>
  /\ syncErr = Nil
  /\ calls = <<>>

\* The target paths callers pass: relative and absolute files and
\* directories, globs with and without matches, a malformed glob.
RelD == <<100>>  \* "d"
RelDA == <<100, 47, 97>>  \* "d/a"
GlobAll == <<42>>  \* "*"
GlobNone == <<122, 42>>  \* "z*"
GlobBad == <<91>>  \* "["
AbsD == <<47, 114, 47, 100>>  \* "/r/d"

TargetChoices ==
  {Target(RelD, FALSE), Target(RelD, TRUE), Target(RelDA, FALSE), Target(GlobAll, FALSE),
   Target(GlobNone, FALSE), Target(GlobBad, FALSE), Target(AbsD, FALSE), Target(AbsD, TRUE),
   Target(FileDA, FALSE)}

\* Bounds of the resolution runs.
MaxTargets == 2
MaxCommits == 1

TargetLists == UNION {[1..n -> TargetChoices] : n \in 0..MaxTargets}

\* Commits to any of the files, all on one day.
CommitSome == \E f \in FilePaths : Len(log) < MaxCommits /\ WriteAndCommit(f, Date1)

\* Untracked files.
WriteSome == \E f \in FilePaths : WriteFile(f)

CallVersion == \E ts \in TargetLists : GetVersionMetadata(ts)

Next ==
  \/ CommitSome
  \/ WriteSome
  \/ CallVersion
  \/ QueryHash
  \/ QueryDate
  \/ QueryCount
  \/ ReturnMetadata
  \/ Forget

Spec == Init /\ [][Next]_vars

\* Bounds of the suffix runs: one file committed again and again.
MaxHistory == 28
MaxDateChanges == 1

DateChanges(l) == Cardinality({i \in 1..(Len(l) - 1) : l[i].date # l[i + 1].date})

CommitAgain ==
  \E d \in Dates :
    /\ Len(log) < MaxHistory
    /\ IF log = <<>> THEN TRUE
       ELSE IF d = log[1].date THEN TRUE
       ELSE DateChanges(log) < MaxDateChanges
    /\ WriteAndCommit(FileDA, d)

\* The file named by its absolute path and by its path from RepoRoot.
CallVersionOfFile == \E p \in {FileDA, RelDA} : GetVersionMetadata(<<Target(p, FALSE)>>)

NextSuffix ==
  \/ CommitAgain
  \/ CallVersionOfFile
  \/ QueryHash
  \/ QueryDate
  \/ QueryCount
  \/ ReturnMetadata
  \/ Forget

SpecSuffix == Init /\ [][NextSuffix]_vars

NextSync ==
  \/ \E b \in Branches : Checkout(b)
  \/ RemoteCommit
  \/ LocalCommit
  \/ Edit
  \/ AssertBranchIsCleanAndSynced
  \/ Fetch
  \/ RevList
  \/ Status
  \/ Forget

SpecSync == Init /\ [][NextSync]_vars

(***************************************************************************)
(* Properties of the date suffix                                            *)
(***************************************************************************)

\* GetVersionMetadata has returned without error.
ReturnedOk == pc = "done" /\ ret.err = Nil

\* The number of lines of the date-history answer equal to the latest date.
LinesEqualTo(lines, date) == Cardinality({k \in 1..Len(lines) : lines[k] = date})
SameDateLines == LinesEqualTo(SplitByte(countStr, 10), commitDateNoSuffix)

\* The commits of the repository made on date d.
CommitsOn(d) == Cardinality({k \in 1..Len(log) : log[k].date = d})

\* C1 as the specification states it: when exactly two lines of the date
\* history equal the latest commit date, commitDate is the bare date.
C1_TwoLinesBareDate == (ReturnedOk /\ SameDateLines = 2) => ret.commitDate = commitDateNoSuffix

\* C1, amended: when exactly two lines of the date history equal the latest
\* commit date, commitDate is that date followed by "-b".
C1_TwoLinesSuffixB ==
  (ReturnedOk /\ SameDateLines = 2) => ret.commitDate = commitDateNoSuffix \o <<45, 98>>

\* Two commits on the latest date among others, and the result returned.
C1_Witness ==
  /\ ReturnedOk
  /\ SameDateLines = 2
  /\ commitDateNoSuffix = Date2
  /\ Len(log) > 2
  /\ ret.commitDate = <<50, 48, 50, 53, 45, 48, 57, 45, 49, 49, 45, 98>>

\* C2: for a file touched by two commits of the same date, and git answering
\* every query, the result is that date with a suffix ending in 'b'
\* (date + "-b"), a non-empty hash and a nil error.
C2_TwoCommitsSuffixB ==
  (/\ pc = "done"
   /\ \A k \in 1..Len(calls) : calls[k].ok
   /\ calls # <<>>
   /\ Len(targets) = 1
   /\ Abs(targets[1].Path) = FileDA
   /\ Len(log) = 2
   /\ log[1].file = FileDA /\ log[2].file = FileDA
   /\ log[1].date = log[2].date)
  => /\ ret.err = Nil
     /\ HasPrefix(ret.commitDate, log[1].date)
     /\ HasSuffix(ret.commitDate, <<98>>)
     /\ ret.commitDate = log[1].date \o <<45, 98>>
     /\ ret.commitHash # <<>>

\* C3 as the specification states it: for count >= 3 same-date lines the
\* suffix letter is 'a' + (count - 2).
LetterCountMinusTwo(count) ==
  count >= 3 => ret.commitDate = commitDateNoSuffix \o <<45, 97 + (count - 2)>>

C3_LetterCountMinusTwo == ReturnedOk => LetterCountMinusTwo(SameDateLines)

\* C3, amended: for count >= 3 same-date lines commitDate is the date, a dash
\* and the character 'a' + (count - 1): "-c" for three, "-d" for four. The
\* count is taken from the repository: the commits of the file on the date of
\* its latest commit.
LetterCountMinusOne(lines, commits) ==
  lines >= 3 => lines = commits /\ ret.commitDate = log[1].date \o <<45, 97 + (commits - 1)>>

C3_LetterCountMinusOne ==
  ReturnedOk => LetterCountMinusOne(SameDateLines, CommitsOn(commitDateNoSuffix))

\* Four commits on the latest date, after others, and "-d" returned.
C3_Witness ==
  /\ ReturnedOk
  /\ Len(log) > 4
  /\ SameDateLines = 4
  /\ log[1].date = Date1
  /\ \E k \in 1..Len(log) : log[k].date = Date2
  /\ ret.commitDate = <<50, 48, 50, 53, 45, 48, 57, 45, 49, 48, 45, 100>>

\* C9: a suffix, when one is appended, is one lowercase letter 'a'..'z'.
C9_SuffixIsLetter ==
  (ReturnedOk /\ ret.commitDate # commitDateNoSuffix)
  => \E c \in 97..122 : ret.commitDate = commitDateNoSuffix \o <<45, c>>

\* An untracked file named by its absolute path, every query answered, and a
\* successful return.
C10_EmptySuccess ==
  /\ ReturnedOk
  /\ targets = <<Target(FileDA, FALSE)>>
  /\ log = <<>>
  /\ Len(calls) = 3
  /\ ret.commitDate = <<>>

\* C10: a return is either an error with both strings empty, or no error
\* with both strings non-empty.
C10_AllOrNothing ==
  pc = "done"
  => \/ ret.err # Nil /\ ret.commitDate = <<>> /\ ret.commitHash = <<>>
     \/ ret.err = Nil /\ ret.commitDate # <<>> /\ ret.commitHash # <<>>

(***************************************************************************)
(* Properties of the path resolution                                        *)
(***************************************************************************)

\* The call has resolved its targets and not yet been forgotten.
HasResolved == pc \in {"hash", "date", "count", "suffix", "done"} /\ resolved # <<>>

\* The one target of the call, when it is a glob.
OneGlobTarget == Len(targets) = 1 /\ ContainsAny(Clean(targets[1].Path), GlobChars)

\* The target list naming each of the paths ms with the flag includeSubdirs.
LiteralTargets(ms, includeSubdirs) == [k \in 1..Len(ms) |-> Target(ms[k], includeSubdirs)]

\* C5: the resolved list of a glob target with at least one match equals,
\* element for element, the resolved list of the target list that names each
\* match literally, in the order of the matches, with the same flag.
C5_GlobAsLiteralList ==
  (HasResolved /\ OneGlobTarget)
  => ResolveFrom(LiteralTargets(Glob(Clean(targets[1].Path)).matches,
                                targets[1].IncludeSubdirs), <<>>)
       = [err |-> Nil, resolved |-> resolved]

\* Target i of the call is a glob without matches, and the targets before
\* it resolve.
NoMatchAt(i) ==
  /\ ContainsAny(Clean(targets[i].Path), GlobChars)
  /\ Glob(Clean(targets[i].Path)) = [bad |-> FALSE, matches |-> <<>>]
  /\ ResolveFrom(SubSeq(targets, 1, i - 1), <<>>).err = Nil

\* C6: when a glob target has no matches and every target before it resolves,
\* the call ends with the no-match error for that pattern, both strings
\* empty, and git is never run, whatever targets follow.
C6_NoMatchFailsBeforeGit ==
  \A i \in 1..Len(targets) :
    (pc \in {"hash", "date", "count", "suffix", "done"} /\ NoMatchAt(i))
    => /\ pc = "done"
       /\ ret = Returned(<<>>, <<>>, Err("glob: no matches", Clean(targets[i].Path)))
       /\ calls = <<>>

\* A glob without matches between a directory that resolves to a committed
\* file and nothing after it, and before a target that would resolve.
C6_Witness ==
  /\ pc = "done"
  /\ log # <<>>
  /\ \/ /\ targets = <<Target(AbsD, FALSE), Target(GlobNone, FALSE)>>
        /\ FilesIn(AbsD) # <<>>
     \/ /\ targets = <<Target(GlobNone, FALSE), Target(FileDA, FALSE)>>
        /\ FileDA \in files
  /\ ret.err = Err("glob: no matches", GlobNone)
  /\ calls = <<>>

\* The call had one target, a directory named literally, and git answered
\* every query.
DirectoryReturned ==
  /\ pc = "done"
  /\ Len(targets) = 1
  /\ ~ContainsAny(Clean(targets[1].Path), GlobChars)
  /\ Abs(targets[1].Path) \in dirs
  /\ Len(calls) = 3
  /\ \A k \in 1..Len(calls) : calls[k].ok

\* The commits to files of the subtree of directory d, newest first.
CommitsBelow(d) == SelectSeq(log, LAMBDA c : Touches(d, c.file))

\* Directory d taken without its subdirectories: the resolved paths are its
\* immediate files, and no commit to a file deeper down is the one returned.
ImmediateOnly(d) ==
  /\ {Abs(resolved[k]) : k \in 1..Len(resolved)} = {f \in files : Dir(f) = d}
  /\ \A k \in 1..Len(log) : Dir(log[k].file) # d => ret.commitHash # ShortHash(log[k].id)

\* Directory d taken with its subtree: the one resolved path is the directory,
\* and the newest commit below it is the one returned.
WholeSubtree(d, below) ==
  /\ Len(resolved) = 1
  /\ Abs(resolved[1]) = d
  /\ below # <<>> => ret.commitHash = ShortHash(below[1].id) /\ ret.commitDate # <<>>

\* C7: a directory target with IncludeSubdirs=false resolves to the immediate
\* files of the directory, and a commit touching only nested files is not
\* reflected in the result; with IncludeSubdirs=true it resolves to the
\* directory itself, and a commit touching anything below it is reflected.
C7_DirectoryTarget ==
  DirectoryReturned
  => IF targets[1].IncludeSubdirs
       THEN WholeSubtree(Abs(targets[1].Path), CommitsBelow(Abs(targets[1].Path)))
       ELSE ImmediateOnly(Abs(targets[1].Path))

\* C8: the directory git runs in is the directory of the first resolved path
\* when that is a file, the path itself otherwise, and every path handed to
\* git names, from that directory, the entry the resolution looked up from
\* the caller's directory.
C8_WorkDirAnchorsPaths ==
  (pc \in {"hash", "date", "count", "suffix"})
  => /\ workDir = IF Abs(resolved[1]) \in files THEN Dir(resolved[1]) ELSE resolved[1]
     /\ \A k \in 1..Len(resolved) : AbsFrom(Abs(workDir), resolved[k]) = Abs(resolved[k])

(***************************************************************************)
(* Properties of AssertBranchIsCleanAndSynced                               *)
(***************************************************************************)

\* The git commands of the check, in the order of the code.
SyncOrder == <<RevParseArgs, FetchArgs, RevListArgs, StatusArgs>>

Zero == <<48>>  \* "0"

\* The verdict when every command run has succeeded: the rev-list answer
\* decides first, behind before ahead, and the status is asked for only when
\* both counts are zero.
SyncVerdict(n) ==
  /\ n >= 3
  /\ Len(parts) = 2 => parts = <<Itoa(repo.behind), Itoa(repo.ahead)>>
  /\ Len(parts) # 2 => n = 3 /\ syncErr = Err("unexpected output from git rev-list", <<>>)
  /\ (Len(parts) = 2 /\ parts[1] # Zero)
     => n = 3 /\ syncErr = Err("your branch is behind origin/", repo.branch)
  /\ (Len(parts) = 2 /\ parts[1] = Zero /\ parts[2] # Zero)
     => n = 3 /\ syncErr = Err("your branch is ahead of origin/", repo.branch)
  /\ parts = <<Zero, Zero>>
     => /\ n = 4
        /\ syncErr = IF repo.dirty THEN Err("you have uncommitted changes", <<>>) ELSE Nil
  /\ syncErr = Err("you have uncommitted changes", <<>>) => parts = <<Zero, Zero>>

\* The commands run so far are the first n of SyncOrder, and all but the last
\* have succeeded.
RanInOrder(n) ==
  /\ n <= 4
  /\ \A k \in 1..n : calls[k].args = SyncOrder[k]
  /\ \A k \in 1..(n - 1) : calls[k].ok

\* The check has ended after n commands: a failed command is the last one
\* and its error is returned; otherwise the verdict is SyncVerdict.
EndedAfter(n) ==
  /\ n >= 1
  /\ IF calls[n].ok THEN SyncVerdict(n) ELSE syncErr.kind = "git"

\* C4: the check runs branch-name query, fetch, ahead/behind query and status
\* query in this order and stops at the first failure: a non-zero behind
\* count gives the behind error whatever the ahead count and the status, a
\* zero behind count with a non-zero ahead count gives the ahead error
\* whatever the status, the uncommitted-changes error is returned only when
\* both counts are zero, and no command is run after a failed one.
C4_OrderAndShortCircuit ==
  /\ RanInOrder(Len(calls))
  /\ pc = "syncDone" => EndedAfter(Len(calls))

\* Behind, ahead and dirty at once: the behind error, and no status query.
C4_Witness ==
  /\ pc = "syncDone"
  /\ repo.behind > 0
  /\ repo.ahead > 0
  /\ repo.dirty
  /\ Len(calls) = 3
  /\ calls[3].ok
  /\ syncErr = Err("your branch is behind origin/", repo.branch)

====
